---- MODULE Spec2Model ----
(***************************************************************************)
(* A model of jsonembed/search-collection.py: the QueryProcessor of the    *)
(* Airbnb retrieval-augmented question answering example.  Python strings  *)
(* are TLA+ strings, lists are sequences, tuples are tuples, and an        *)
(* Optional value is None (the empty tuple) or Some(v) (the 1-tuple <<v>>).*)
(***************************************************************************)
EXTENDS Integers, Sequences, FiniteSets, TLC

VARIABLES history, last_results, last_question, last_filters, pc, turn, tokens, call

vars == <<history, last_results, last_question, last_filters, pc, turn, tokens, call>>

session == <<history, last_results, last_question, last_filters>>

----------------------------------------------------------------------------
(* Python values *)

None == <<>>
Some(v) == <<v>>
IsNone(o) == o = None
Get(o) == o[1]

\* bool(x) of an Optional list or Optional string: None and the empty value are falsy
Truthy(o) == o # None /\ Len(Get(o)) > 0

\* a filter value is a str (_id, country, market) or an int (beds, bedrooms)
StrVal(s) == [type |-> "str", str |-> s, int |-> 0]
IntVal(n) == [type |-> "int", str |-> "", int |-> n]

----------------------------------------------------------------------------
(* str operations *)

Ch(s, i) == SubSeq(s, i, i)

Uppers == "ABCDEFGHIJKLMNOPQRSTUVWXYZ"
Lowers == "abcdefghijklmnopqrstuvwxyz"
Digits == "0123456789"

LowerMap == [c \in {Ch(Uppers, i) : i \in 1..26} |->
               Ch(Lowers, CHOOSE i \in 1..26 : Ch(Uppers, i) = c)]

DigitMap == [c \in {Ch(Digits, i) : i \in 1..10} |->
               (CHOOSE i \in 1..10 : Ch(Digits, i) = c) - 1]

DigitChars == DOMAIN DigitMap

Whitespace == {" ", "\t", "\n", "\r", "\f"}

RECURSIVE lower(_)
lower(s) ==
  IF s = "" THEN ""
  ELSE LET c == Head(s)
       IN (IF c \in DOMAIN LowerMap THEN LowerMap[c] ELSE c) \o lower(Tail(s))

RECURSIVE lstrip(_)
lstrip(s) == IF s # "" /\ Head(s) \in Whitespace THEN lstrip(Tail(s)) ELSE s

RECURSIVE rstrip(_)
rstrip(s) ==
  IF s # "" /\ Ch(s, Len(s)) \in Whitespace THEN rstrip(SubSeq(s, 1, Len(s) - 1)) ELSE s

strip(s) == rstrip(lstrip(s))

\* p in s
contains(s, p) ==
  \E i \in 1..(Len(s) - Len(p) + 1) : SubSeq(s, i, i + Len(p) - 1) = p

\* s.split(",", 1)[0]
split_first(s, sep) ==
  IF \E i \in 1..Len(s) : Ch(s, i) = sep
  THEN SubSeq(s, 1, (CHOOSE i \in 1..Len(s) :
                       /\ Ch(s, i) = sep
                       /\ \A j \in 1..(i - 1) : Ch(s, j) # sep) - 1)
  ELSE s

\* int(s) of a string of decimal digits
RECURSIVE int(_)
int(s) ==
  IF s = "" THEN 0
  ELSE 10 * int(SubSeq(s, 1, Len(s) - 1)) + DigitMap[Ch(s, Len(s))]

\* "\n".join(xs)
RECURSIVE join(_, _)
join(sep, xs) ==
  IF Len(xs) = 0 THEN ""
  ELSE IF Len(xs) = 1 THEN xs[1]
  ELSE xs[1] \o sep \o join(sep, Tail(xs))

----------------------------------------------------------------------------
(* re.search for the five patterns of extract_filters.  Each pattern is    *)
(* (?i)<literal>(<class>{min,max}): a case-insensitive literal followed by *)
(* one capturing group, a greedy run of characters of one class; max 0 is  *)
(* a run without an upper limit, + .                                       *)

InClass(c, cls) == IF cls.negated THEN c \notin cls.chars ELSE c \in cls.chars

ClassDigit == [negated |-> FALSE, chars |-> DigitChars]         \* \d
ClassNotQuoteSpace == [negated |-> TRUE, chars |-> {"\"", " "}] \* [^" ]

PatternId == [lit |-> "id=", cls |-> ClassDigit, min |-> 8, max |-> 8]
PatternCountry == [lit |-> "country=", cls |-> ClassNotQuoteSpace, min |-> 1, max |-> 0]
PatternMarket == [lit |-> "market=", cls |-> ClassNotQuoteSpace, min |-> 1, max |-> 0]
PatternBeds == [lit |-> "beds=", cls |-> ClassDigit, min |-> 1, max |-> 0]
PatternBedrooms == [lit |-> "bedrooms=", cls |-> ClassDigit, min |-> 1, max |-> 0]

\* the length of the longest run of class characters of s that starts at j
RunLength(s, j, cls) ==
  LET stops == {k \in j..Len(s) : ~InClass(Ch(s, k), cls)}
  IN IF stops = {} THEN Len(s) - j + 1
     ELSE (CHOOSE k \in stops : \A k2 \in stops : k <= k2) - j

\* the pattern matches s at position i; folded is s with the case folded, (?i)
MatchesAt(pattern, s, folded, i) ==
  /\ i + Len(pattern.lit) - 1 <= Len(s)
  /\ SubSeq(folded, i, i + Len(pattern.lit) - 1) = pattern.lit
  /\ RunLength(s, i + Len(pattern.lit), pattern.cls) >= pattern.min

\* the position of the leftmost match of the pattern in s, 0 when there is none
LeftmostMatch(pattern, s, folded) ==
  LET hits == {i \in 1..Len(s) : MatchesAt(pattern, s, folded, i)}
  IN IF hits = {} THEN 0 ELSE CHOOSE h \in hits : \A h2 \in hits : h <= h2

\* the first n characters of s from position j, all of the run when max is 0
Taken(s, j, run, max) ==
  SubSeq(s, j, j + (IF max # 0 /\ run > max THEN max ELSE run) - 1)

\* group(1) of the match at position i
Group(pattern, s, i) ==
  IF i = 0 THEN None
  ELSE Some(Taken(s, i + Len(pattern.lit),
                  RunLength(s, i + Len(pattern.lit), pattern.cls), pattern.max))

\* re.search(pattern, s): group(1) of the leftmost match, or None
re_search(pattern, s) == Group(pattern, s, LeftmostMatch(pattern, s, lower(s)))

\* `if match: return match.group(1).split(",", 1)[0]`
SplitMatch(match) ==
  IF match # None THEN Some(split_first(Get(match), ",")) ELSE None

_split_filters(pattern, question) == SplitMatch(re_search(pattern, question))

\* `if match: filters.append((field, match))`, int(match) for the counts
FilterPair(field, match, isInt) ==
  IF Truthy(match)
  THEN << <<field, IF isInt THEN IntVal(int(Get(match))) ELSE StrVal(Get(match))>> >>
  ELSE <<>>

FilterOf(pattern, field, question, isInt) ==
  FilterPair(field, _split_filters(pattern, question), isInt)

\* the four filters collected with the counts before the places
OtherFilters_counts_first(question) ==
  FilterOf(PatternBeds, "beds", question, TRUE)
    \o FilterOf(PatternBedrooms, "bedrooms", question, TRUE)
    \o FilterOf(PatternCountry, "address.country_code", question, FALSE)
    \o FilterOf(PatternMarket, "address.market", question, FALSE)

\* the country, market, beds and bedrooms filters, in the order of the code
OtherFilters(question) ==
  FilterOf(PatternCountry, "address.country_code", question, FALSE)
    \o FilterOf(PatternMarket, "address.market", question, FALSE)
    \o FilterOf(PatternBeds, "beds", question, TRUE)
    \o FilterOf(PatternBedrooms, "bedrooms", question, TRUE)

\* the return statements without the early one: the identifier joins the others
ExtractResult_no_short_circuit(id, filters) ==
  IF id \o filters # <<>> THEN Some(<<id \o filters, id # <<>> >>) ELSE None

\* return statements that hand back the filter list also when it is empty
ExtractResult_returns_empty_list(id, filters) ==
  IF id # <<>> THEN Some(<<id, TRUE>>) ELSE Some(<<filters, FALSE>>)

\* the return statements of extract_filters: the identifier alone, or the others
ExtractResult(id, filters) ==
  IF id # <<>> THEN Some(<<id, TRUE>>)
  ELSE IF filters # <<>> THEN Some(<<filters, FALSE>>) ELSE None

extract_filters(question) ==
  ExtractResult(FilterOf(PatternId, "_id", question, FALSE), OtherFilters(question))

FollowupPhrases ==
  {"these", "those", "them", "it", "pricing", "price", "cost", "how much",
   "what about", "and what", "compare", "which one", "cheapest", "most expensive",
   "more details", "tell me more", "amenities", "availability", "location"}

_is_followup(question) ==
  LET q == lower(strip(question))
  IN \E p \in FollowupPhrases : contains(q, p)

\* the questions put to the processor
QFollowup == "what about pricing?"
QNewTopic == "cheap places in Paris"
QIdFollowup == "tell me more about ID=12345678"

Questions == {QFollowup, QNewTopic, QIdFollowup}

\* questions with filter tokens: a follow-up with one, a new topic with three
QOneFilter == "what about beds=2?"
QFilters == "Show listings with beds=2 bedrooms=1 market=Paris"

FilterQuestions == {QOneFilter, QFilters}

\* extract_filters and _is_followup of each question, evaluated once
Extracted == [q \in Questions \cup FilterQuestions |-> extract_filters(q)]
Followup == [q \in Questions \cup FilterQuestions |-> _is_followup(q)]

----------------------------------------------------------------------------
(* Documents of the collection.  A document is a dict: an ordered sequence *)
(* of <<key, value>> pairs.  A similarity score is kept in hundredths.     *)

FloatVal(n) == [type |-> "float", str |-> "", int |-> n]
ArrayVal(s) == [type |-> "array", str |-> s, int |-> 0]

HasKey(doc, key) == \E i \in 1..Len(doc) : doc[i][1] = key

\* doc.get(key, default)
DictGet(doc, key, default) ==
  IF HasKey(doc, key)
  THEN doc[CHOOSE i \in 1..Len(doc) : doc[i][1] = key][2]
  ELSE default

\* doc.pop(key, None)
RECURSIVE DictPop(_, _)
DictPop(doc, key) ==
  IF Len(doc) = 0 THEN <<>>
  ELSE IF doc[1][1] = key THEN DictPop(Tail(doc), key)
  ELSE <<doc[1]>> \o DictPop(Tail(doc), key)

\* the decimal digits of a natural number
RECURSIVE str(_)
str(n) == IF n < 10 THEN Ch(Digits, n + 1) ELSE str(n \div 10) \o Ch(Digits, (n % 10) + 1)

DumpsValue(v) ==
  CASE v.type = "str" -> "\"" \o v.str \o "\""
    [] v.type = "int" -> str(v.int)
    [] v.type = "float" -> str(v.int \div 100) \o "." \o str((v.int % 100) \div 10) \o str(v.int % 10)
    [] v.type = "array" -> v.str

\* bson.json_util.dumps of a document
dumps(doc) ==
  "{" \o join(", ", [i \in 1..Len(doc) |-> "\"" \o doc[i][1] \o "\": " \o DumpsValue(doc[i][2])]) \o "}"

----------------------------------------------------------------------------
(* The processor: self is the record of the QueryProcessor's fields.       *)

Self == [history |-> history, last_results |-> last_results,
         last_question |-> last_question, last_filters |-> last_filters]

Message(role, content) == [role |-> role, content |-> content]

NoContextSentinel == "no context from vectors"
TruncateAbove == 8
KeepLast == 6
MinScore == 50
DefaultMaxMessages == 4

\* xs[-n:]: the last n items for n > 0, and xs[0:], all of xs, for n = 0
LastN(xs, n) ==
  IF n > 0
  THEN IF Len(xs) <= n THEN xs ELSE SubSeq(xs, Len(xs) - n + 1, Len(xs))
  ELSE SubSeq(xs, 1 - n, Len(xs))

\* _invoke_openai: llm is what chat.completions.create does, raise or reply
_invoke_openai(self, prompt, llm) ==
  LET h0 == IF self.history = None THEN <<>> ELSE Get(self.history)
      h1 == Append(h0, Message("user", prompt))
      assistant_message == IF llm.content = None THEN "" ELSE Get(llm.content)
      h2 == Append(h1, Message("assistant", assistant_message))
  IN IF llm.raises
     THEN [self |-> [self EXCEPT !.history = Some(h1)], raised |-> TRUE, ret |-> ""]
     ELSE [self |-> [self EXCEPT !.history = Some(h2)], raised |-> FALSE, ret |-> assistant_message]

query_llm(self, question, historyArg, llm) ==
  LET self1 == IF Truthy(historyArg) THEN [self EXCEPT !.history = historyArg] ELSE self
  IN _invoke_openai(self1, question, llm)

\* the conversation window prepended to a retrieval query
_build_retrieval_query(self, question, max_messages) ==
  IF ~Truthy(self.history) THEN question
  ELSE LET recent == LastN(Get(self.history), max_messages)
           convo == join("\n", [i \in 1..Len(recent) |->
                                  recent[i].role \o ": " \o recent[i].content])
       IN strip("Conversation context:\n" \o convo \o "\n\nCurrent question:\n" \o question)

\* a $vectorSearch filter built from the first pair alone
MatchFilter_first_pair_only(filters) ==
  IF Truthy(filters)
  THEN Some([op |-> "eq", clauses |-> <<Get(filters)[1]>>])
  ELSE None

\* the $vectorSearch filter search_similar_documents builds from a filter list
MatchFilter(filters) ==
  IF Truthy(filters)
  THEN IF Len(Get(filters)) > 1
       THEN Some([op |-> "$and", clauses |-> Get(filters)])
       ELSE Some([op |-> "eq", clauses |-> <<Get(filters)[1]>>])
  ELSE None

\* search_similar_documents: rows is what collection.aggregate(pipeline) yields
search_similar_documents(rows, min_score) ==
  LET RECURSIVE Keep(_)
      Keep(rs) ==
        IF Len(rs) = 0 THEN <<>>
        ELSE (IF DictGet(rs[1], "score", FloatVal(0)).int >= min_score
              THEN <<dumps(rs[1])>> ELSE <<>>) \o Keep(Tail(rs))
  IN Keep(rows)

\* has_explicit_filter that forgets the direct-lookup flag of an identifier filter
has_explicit_filter_ignores_direct(filters) ==
  filters # None /\ ~Get(filters)[2] /\ Len(Get(filters)[1]) > 0

has_explicit_filter(filters) ==
  filters # None /\ (Get(filters)[2] \/ Len(Get(filters)[1]) > 0)

\* the condition of the reuse branch
IsReuse(self, question, filters) ==
  Truthy(self.last_results) /\ Followup[question] /\ ~has_explicit_filter(filters)

IsDirectLookup(filters) == filters # None /\ Get(filters)[2]

BuildPrompt(context, question) ==
  "Use the following context to answer the question.\n"
    \o "Context:\n" \o context \o "\n\n"
    \o "Question:\n" \o question

\* a sliding window of an odd size, history[-5:]
SlidingWindow_keeps_five(h) ==
  IF Truthy(h) /\ Len(Get(h)) > TruncateAbove THEN Some(LastN(Get(h), KeepLast - 1)) ELSE h

\* a sliding window that keeps the oldest turns, history[:6]
SlidingWindow_keeps_oldest(h) ==
  IF Truthy(h) /\ Len(Get(h)) > TruncateAbove THEN Some(SubSeq(Get(h), 1, KeepLast)) ELSE h

\* history[-6:] once the history is longer than 8
SlidingWindow(h) ==
  IF Truthy(h) /\ Len(Get(h)) > TruncateAbove THEN Some(LastN(Get(h), KeepLast)) ELSE h

\* an except handler that also drops the cached results
AfterQuery_drops_results(r, response_message) ==
  IF r.raised
  THEN [self |-> [r.self EXCEPT !.history = None, !.last_results = None],
        response_message |-> response_message, pretrunc |-> None]
  ELSE [self |-> [r.self EXCEPT !.history = SlidingWindow(r.self.history)],
        response_message |-> r.ret, pretrunc |-> r.self.history]

\* an except handler that does not reset the history
AfterQuery_keeps_history(r, response_message) ==
  IF r.raised
  THEN [self |-> r.self, response_message |-> response_message, pretrunc |-> None]
  ELSE [self |-> [r.self EXCEPT !.history = SlidingWindow(r.self.history)],
        response_message |-> r.ret, pretrunc |-> r.self.history]

\* the except handler, or the sliding window after a reply; r is query_llm's outcome
AfterQuery(r, response_message) ==
  IF r.raised
  THEN [self |-> [r.self EXCEPT !.history = None], response_message |-> response_message,
        pretrunc |-> None]
  ELSE [self |-> [r.self EXCEPT !.history = SlidingWindow(r.self.history)],
        response_message |-> r.ret, pretrunc |-> r.self.history]

\* the try/except around query_llm, on both paths
Synthesize(self, prompt, response_message, llm) ==
  AfterQuery(query_llm(self, prompt, self.history, llm), response_message)

----------------------------------------------------------------------------
(* retrieve_aggregate_facts.  env is what the external capabilities do in  *)
(* this turn: embed_raises (voyage.embed), search_raises and rows          *)
(* (collection.aggregate), find_raises and doc (collection.find_one), llm  *)
(* (chat.completions.create).  The result carries the processor after the  *)
(* turn, whether the call raised, the returned pair, and what the turn     *)
(* did: the branch taken, the external calls in order and their arguments. *)

Observed(path, filters) ==
  [path |-> path, filters |-> filters, calls |-> <<>>, results |-> None,
   retrieval_query |-> None, match_filter |-> None, find_id |-> None,
   failed |-> "", pretrunc |-> None]

Raise(self, obs) == [self |-> self, raised |-> TRUE, answer |-> "", returned |-> None, obs |-> obs]

Return(self, answer, obs) ==
  [self |-> self, raised |-> FALSE, answer |-> answer, returned |-> self.history, obs |-> obs]

\* the return after a synthesis; syn is Synthesize's outcome
ReturnSynthesis(syn, obs, results, llm) ==
  Return(syn.self, syn.response_message,
         [obs EXCEPT !.calls = Append(obs.calls, "chat.completions.create"),
                     !.results = results,
                     !.failed = IF llm.raises THEN "chat.completions.create" ELSE "",
                     !.pretrunc = syn.pretrunc])

\* a save that leaves out last_question
Saved_forgets_question(self, question, filters, mongo_results) ==
  [self EXCEPT !.last_results = mongo_results, !.last_filters = filters]

\* self with the retrieval context of this turn saved, lines 299-301
Saved(self, question, filters, mongo_results) ==
  [self EXCEPT !.last_results = mongo_results,
               !.last_question = Some(question),
               !.last_filters = filters]

\* a reuse branch that records the follow-up as the last question
ReuseBranch_updates_last_question(self, question, filters, llm) ==
  ReturnSynthesis(
    Synthesize([self EXCEPT !.last_question = Some(question)],
               BuildPrompt(join("\n", Get(self.last_results)), question),
               NoContextSentinel, llm),
    Observed("reuse", filters), None, llm)

\* lines 253-271: reuse the last retrieved documents as context
ReuseBranch(self, question, filters, llm) ==
  ReturnSynthesis(
    Synthesize(self, BuildPrompt(join("\n", Get(self.last_results)), question),
               NoContextSentinel, llm),
    Observed("reuse", filters), None, llm)

\* `if mongo_results is not None:`, which takes an empty list of results as a result
SaveAndSynthesize_unless_none(self, question, filters, mongo_results, llm, obs) ==
  IF mongo_results # None
  THEN ReturnSynthesis(
         Synthesize(Saved(self, question, filters, mongo_results),
                    BuildPrompt(join("\n", Get(mongo_results)), question),
                    NoContextSentinel, llm),
         obs, mongo_results, llm)
  ELSE Return(self, NoContextSentinel, [obs EXCEPT !.results = mongo_results])

\* saving the retrieval context before looking whether it is empty
SaveAndSynthesize_saves_empty(self, question, filters, mongo_results, llm, obs) ==
  IF Truthy(mongo_results)
  THEN ReturnSynthesis(
         Synthesize(Saved(self, question, filters, mongo_results),
                    BuildPrompt(join("\n", Get(mongo_results)), question),
                    NoContextSentinel, llm),
         obs, mongo_results, llm)
  ELSE Return(Saved(self, question, filters, mongo_results), NoContextSentinel,
              [obs EXCEPT !.results = mongo_results])

\* saving the retrieval context only once the synthesis has succeeded
SaveAndSynthesize_saves_late(self, question, filters, mongo_results, llm, obs) ==
  IF Truthy(mongo_results)
  THEN ReturnSynthesis(
         Synthesize(IF llm.raises THEN self
                    ELSE Saved(self, question, filters, mongo_results),
                    BuildPrompt(join("\n", Get(mongo_results)), question),
                    NoContextSentinel, llm),
         obs, mongo_results, llm)
  ELSE Return(self, NoContextSentinel, [obs EXCEPT !.results = mongo_results])

\* lines 297-323: save the retrieval context and synthesize, or return the sentinel
SaveAndSynthesize(self, question, filters, mongo_results, llm, obs) ==
  IF Truthy(mongo_results)
  THEN ReturnSynthesis(
         Synthesize(Saved(self, question, filters, mongo_results),
                    BuildPrompt(join("\n", Get(mongo_results)), question),
                    NoContextSentinel, llm),
         obs, mongo_results, llm)
  ELSE Return(self, NoContextSentinel, [obs EXCEPT !.results = mongo_results])

\* lines 276-282: direct doc fetch by id=...
DirectBranch(self, question, filters, env) ==
  IF env.find_raises
  THEN Raise(self, [Observed("direct", filters) EXCEPT
                      !.calls = <<"find_one">>, !.find_id = Some(Get(filters)[1][1][2]),
                      !.failed = "find_one"])
  ELSE SaveAndSynthesize(
         self, question, filters,
         IF Truthy(env.doc) THEN Some(<<dumps(DictPop(Get(env.doc), "embedding"))>>)
         ELSE None,
         env.llm,
         [Observed("direct", filters) EXCEPT
            !.calls = <<"find_one">>, !.find_id = Some(Get(filters)[1][1][2])])

\* what the turn did up to generate_embedding, and up to search_similar_documents
ObservedEmbedding(filters, retrieval_query) ==
  [Observed("search", filters) EXCEPT
     !.calls = <<"generate_embedding">>, !.retrieval_query = Some(retrieval_query)]

ObservedSearch(filters, retrieval_query, filter_list) ==
  [Observed("search", filters) EXCEPT
     !.calls = <<"generate_embedding", "search_similar_documents">>,
     !.retrieval_query = Some(retrieval_query),
     !.match_filter = MatchFilter(filter_list)]

\* `filter_list = filters[0] if filters else None`
FilterList(filters) == IF filters # None THEN Some(Get(filters)[1]) ELSE None

\* lines 283-295: embed the retrieval query and run the vector search
SearchBranch(self, question, filters, env) ==
  IF env.embed_raises
  THEN Raise(self, [ObservedEmbedding(
                      filters, _build_retrieval_query(self, question, DefaultMaxMessages))
                    EXCEPT !.failed = "generate_embedding"])
  ELSE IF env.search_raises
  THEN Raise(self, [ObservedSearch(
                      filters, _build_retrieval_query(self, question, DefaultMaxMessages),
                      FilterList(filters))
                    EXCEPT !.failed = "search_similar_documents"])
  ELSE SaveAndSynthesize(
         self, question, filters,
         Some(search_similar_documents(env.rows, MinScore)),
         env.llm,
         ObservedSearch(filters, _build_retrieval_query(self, question, DefaultMaxMessages),
                        FilterList(filters)))

\* `if history:`, which keeps the session's history when an empty list is passed
WithHistory_unless_empty(self, historyArg) ==
  IF Truthy(historyArg) THEN [self EXCEPT !.history = historyArg] ELSE self

\* `if history is not None: self.history = history`
WithHistory(self, historyArg) ==
  IF historyArg # None THEN [self EXCEPT !.history = historyArg] ELSE self

\* the three branches of retrieve_aggregate_facts, filters being the extracted ones
Branches(self, question, filters, env) ==
  IF IsReuse(self, question, filters) THEN ReuseBranch(self, question, filters, env.llm)
  ELSE IF IsDirectLookup(filters) THEN DirectBranch(self, question, filters, env)
  ELSE SearchBranch(self, question, filters, env)

retrieve_aggregate_facts(self, question, historyArg, env) ==
  Branches(WithHistory(self, historyArg), question, Extracted[question], env)

\* a clear that forgets last_results
clear_keeps_results(self) ==
  [self EXCEPT !.history = None, !.last_question = None, !.last_filters = None]

\* a clear that forgets last_filters
clear_keeps_filters(self) ==
  [self EXCEPT !.history = None, !.last_results = None, !.last_question = None]

\* the `clear` branch of run
clear(self) ==
  [self EXCEPT !.history = None, !.last_results = None,
               !.last_question = None, !.last_filters = None]

----------------------------------------------------------------------------
(* The inputs and the external capabilities' outcomes the model draws from *)

MaxHistory == 10
MaxPathHistory == 4
MaxMessages == 5
MaxTokens == 3

SuppliedHistory ==
  <<Message("user", "u1"), Message("assistant", "a1"), Message("user", "u2"),
    Message("assistant", "a2"), Message("user", "u3"), Message("assistant", "a3"),
    Message("user", "u4"), Message("assistant", "a4"), Message("user", "u5")>>

HistoryArgs == {None, Some(<<>>), Some(SuppliedHistory)}

DocListing ==
  << <<"_id", StrVal("12345678")>>, <<"name", StrVal("Ribeira Charming Duplex")>>,
     <<"beds", IntVal(5)>>, <<"embedding", ArrayVal("[0.12, -0.07]")>> >>

RowAtThreshold ==
  << <<"_id", StrVal("10006546")>>, <<"name", StrVal("Horto flat")>>,
     <<"score", FloatVal(50)>> >>

RowBelowThreshold ==
  << <<"_id", StrVal("10009999")>>, <<"name", StrVal("Ocean View")>>,
     <<"score", FloatVal(49)>> >>

\* what collection.aggregate may yield, sorted by score
RowLists == {<<>>, <<RowAtThreshold>>, <<RowBelowThreshold>>, <<RowAtThreshold, RowBelowThreshold>>}

\* what collection.find_one may return
FindResults == {None, Some(DocListing)}

LLMReply == [raises |-> FALSE, content |-> Some("It is 80 per night.")]
LLMRaise == [raises |-> TRUE, content |-> None]

LLMOutcomes == {LLMReply, LLMRaise}

BaseEnv ==
  [embed_raises |-> FALSE, search_raises |-> FALSE, rows |-> <<>>,
   find_raises |-> FALSE, doc |-> None, llm |-> LLMReply]

\* the branch a turn takes, and the outcomes of the capabilities that branch consults
BranchName(self, question, filters) ==
  IF IsReuse(self, question, filters) THEN "reuse"
  ELSE IF IsDirectLookup(filters) THEN "direct" ELSE "search"

PathOf(self, question, historyArg) ==
  BranchName(WithHistory(self, historyArg), question, Extracted[question])

EnvsFor(path) ==
  CASE path = "reuse" -> {[BaseEnv EXCEPT !.llm = l] : l \in LLMOutcomes}
    [] path = "direct" ->
         {[BaseEnv EXCEPT !.find_raises = TRUE]}
         \cup {[BaseEnv EXCEPT !.doc = d, !.llm = l] : d \in FindResults, l \in LLMOutcomes}
    [] path = "search" ->
         {[BaseEnv EXCEPT !.embed_raises = TRUE], [BaseEnv EXCEPT !.search_raises = TRUE]}
         \cup {[BaseEnv EXCEPT !.rows = rs, !.llm = l] : rs \in RowLists, l \in LLMOutcomes}

----------------------------------------------------------------------------
(* State machine.  turn records the last operation: its inputs, whether it *)
(* raised to its caller, what it returned and what it did.                 *)

NoTurn ==
  [op |-> "init", question |-> "", historyArg |-> None, raised |-> FALSE,
   answer |-> "", returned |-> None, clears |-> 0, since_clear |-> FALSE,
   obs |-> Observed("none", None)]

\* a clear command has run and no retrieve_aggregate_facts turn before this one
SinceClear == turn.since_clear /\ turn.op # "retrieve_aggregate_facts"

NoCall == [fn |-> "none", arg |-> "", n |-> 0, ret |-> None]

Init ==
  /\ history = None
  /\ last_results = None
  /\ last_question = None
  /\ last_filters = None
  /\ pc = "running"
  /\ turn = NoTurn
  /\ tokens = <<>>
  /\ call = NoCall

SetSelf(self) ==
  /\ history' = self.history
  /\ last_results' = self.last_results
  /\ last_question' = self.last_question
  /\ last_filters' = self.last_filters

HistoryLen(h) == IF h = None THEN 0 ELSE Len(Get(h))

TurnOfRetrieve(question, historyArg, r) ==
  [op |-> "retrieve_aggregate_facts", question |-> question, historyArg |-> historyArg,
   raised |-> r.raised, answer |-> r.answer, returned |-> r.returned, clears |-> 0,
   since_clear |-> SinceClear, obs |-> r.obs]

\* the processor and the record of the turn after retrieve_aggregate_facts ended as r
AfterRetrieve(question, historyArg, r) ==
  /\ SetSelf(r.self)
  /\ turn' = TurnOfRetrieve(question, historyArg, r)

\* a call of retrieve_aggregate_facts(question, history) by a harness
RetrieveAggregateFacts ==
  \E question \in Questions, historyArg \in HistoryArgs :
    \E env \in EnvsFor(PathOf(Self, question, historyArg)) :
      /\ AfterRetrieve(question, historyArg,
                       retrieve_aggregate_facts(Self, question, historyArg, env))
      /\ UNCHANGED <<pc, tokens, call>>

Next == RetrieveAggregateFacts

Spec == Init /\ [][Next]_vars

----------------------------------------------------------------------------
(* run: the command loop.  One action per branch of the loop body; an      *)
(* exception other than KeyboardInterrupt leaves run and ends the process. *)

startswith(s, prefix) == Len(s) >= Len(prefix) /\ SubSeq(s, 1, Len(prefix)) = prefix

removeprefix(s, prefix) ==
  IF startswith(s, prefix) THEN SubSeq(s, Len(prefix) + 1, Len(s)) ELSE s

InputLines == {"  ", "clear", "ask hello", " what about pricing? ", QNewTopic, QIdFollowup}

\* the branch of the loop body a stripped input line takes
Command(user_input) ==
  IF user_input = "" THEN "invalid"
  ELSE IF startswith(user_input, "ask") THEN "ask"
  ELSE IF startswith(user_input, "clear") THEN "clear"
  ELSE "question"

RunInvalid ==
  /\ pc = "running"
  /\ \E line \in InputLines :
       LET user_input == strip(line)
       IN /\ Command(user_input) = "invalid"
          /\ turn' = [NoTurn EXCEPT !.op = "invalid", !.question = user_input,
                                    !.answer = "Not a valid question",
                                    !.since_clear = SinceClear]
          /\ UNCHANGED <<history, last_results, last_question, last_filters, pc, tokens, call>>

\* the processor and the record of the turn after query_llm ended as r
AfterAsk(question, llm, r) ==
  /\ SetSelf(r.self)
  /\ pc' = IF r.raised THEN "exited" ELSE "running"
  /\ turn' = [NoTurn EXCEPT
                !.op = "query_llm", !.question = question, !.raised = r.raised,
                !.answer = r.ret, !.since_clear = SinceClear,
                !.returned = IF r.raised THEN None ELSE r.self.history,
                !.obs = [Observed("none", None) EXCEPT
                           !.calls = <<"chat.completions.create">>,
                           !.failed = IF llm.raises THEN "chat.completions.create" ELSE ""]]

\* `user_input.removeprefix("ask").strip()`
AskQuestion(user_input) == strip(removeprefix(user_input, "ask"))

RunAsk ==
  /\ pc = "running"
  /\ HistoryLen(history) < MaxHistory
  /\ \E line \in InputLines, llm \in LLMOutcomes :
       /\ Command(strip(line)) = "ask"
       /\ AfterAsk(AskQuestion(strip(line)), llm,
                   query_llm(Self, AskQuestion(strip(line)), None, llm))
       /\ UNCHANGED <<tokens, call>>

RunClear ==
  /\ pc = "running"
  /\ \E line \in InputLines :
       LET user_input == strip(line)
       IN /\ Command(user_input) = "clear"
          /\ SetSelf(clear(Self))
          /\ turn' = [NoTurn EXCEPT
                        !.op = "clear", !.question = user_input,
                        !.answer = "history cleared...", !.since_clear = TRUE,
                        !.clears = IF turn.clears >= 1 THEN 2 ELSE 1]
          /\ UNCHANGED <<pc, tokens, call>>

\* an exception that leaves retrieve_aggregate_facts leaves run
AfterQuestion(user_input, r) ==
  /\ AfterRetrieve(user_input, None, r)
  /\ pc' = IF r.raised THEN "exited" ELSE "running"

RunQuestion ==
  /\ pc = "running"
  /\ \E line \in InputLines :
       /\ Command(strip(line)) = "question"
       /\ \E env \in EnvsFor(PathOf(Self, strip(line), None)) :
            AfterQuestion(strip(line), retrieve_aggregate_facts(Self, strip(line), None, env))
       /\ UNCHANGED <<tokens, call>>

\* Ctrl+C at the prompt
RunInterrupt ==
  /\ pc = "running"
  /\ pc' = "exited"
  /\ turn' = [NoTurn EXCEPT !.op = "interrupt"]
  /\ UNCHANGED <<history, last_results, last_question, last_filters, tokens, call>>

NextRun == RunInvalid \/ RunAsk \/ RunClear \/ RunQuestion \/ RunInterrupt

SpecRun == Init /\ [][NextRun]_vars

----------------------------------------------------------------------------
(* Turns with and without filter tokens, in a session whose history is let *)
(* grow to MaxPathHistory turns.                                           *)

RetrieveFiltered ==
  /\ HistoryLen(history) < MaxPathHistory
  /\ \E question \in Questions \cup FilterQuestions :
       \E env \in EnvsFor(PathOf(Self, question, None)) :
         /\ AfterRetrieve(question, None, retrieve_aggregate_facts(Self, question, None, env))
         /\ UNCHANGED <<pc, tokens, call>>

NextPaths == RetrieveFiltered

SpecPaths == Init /\ [][NextPaths]_vars

----------------------------------------------------------------------------
(* extract_filters as a function of the question: questions are built from *)
(* up to MaxTokens tokens separated by single spaces.                      *)

IdTokens == {"id=12345678", "ID=87654321"}

Tokens ==
  IdTokens \cup {"id=1234567", "country=US", "country=,US", "market=Paris", "beds=2",
                 "beds=3", "bedrooms=1", "cheap"}

\* the words of "Show listings with beds=2 bedrooms=1 market=Paris"
ScenarioTokens == <<"Show listings with", "beds=2", "bedrooms=1", "market=Paris">>

TokenLists == UNION {[1..n -> Tokens] : n \in 0..MaxTokens} \cup {ScenarioTokens}

QuestionOf(toks) == join(" ", toks)

InitExtract ==
  /\ history = None
  /\ last_results = None
  /\ last_question = None
  /\ last_filters = None
  /\ pc = "running"
  /\ turn = NoTurn
  /\ tokens \in TokenLists
  /\ call = NoCall

ExtractFilters ==
  /\ call.fn = "none"
  /\ call' = [fn |-> "extract_filters", arg |-> QuestionOf(tokens), n |-> 0,
              ret |-> extract_filters(QuestionOf(tokens))]
  /\ UNCHANGED <<history, last_results, last_question, last_filters, pc, turn, tokens>>

NextExtract == ExtractFilters

SpecExtract == InitExtract /\ [][NextExtract]_vars

----------------------------------------------------------------------------
(* _build_retrieval_query as a function of the history, the question and   *)
(* max_messages: the history is null or the first turns of SuppliedHistory. *)

QueryHistories ==
  {None} \cup {Some(SubSeq(SuppliedHistory, 1, n)) : n \in 0..Len(SuppliedHistory)}

InitQuery ==
  /\ history \in QueryHistories
  /\ last_results = None
  /\ last_question = None
  /\ last_filters = None
  /\ pc = "running"
  /\ turn = NoTurn
  /\ tokens \in {<<q>> : q \in Questions}
  /\ call = NoCall

BuildRetrievalQuery ==
  /\ call.fn = "none"
  /\ \E max_messages \in 0..MaxMessages :
       call' = [fn |-> "_build_retrieval_query", arg |-> QuestionOf(tokens),
                n |-> max_messages,
                ret |-> Some(_build_retrieval_query(Self, QuestionOf(tokens), max_messages))]
  /\ UNCHANGED <<history, last_results, last_question, last_filters, pc, turn, tokens>>

NextQuery == BuildRetrievalQuery

SpecQuery == InitQuery /\ [][NextQuery]_vars

----------------------------------------------------------------------------
(* Properties *)

Count(calls, name) == Cardinality({i \in DOMAIN calls : calls[i] = name})

IsRetrieveTurn(t) == t.op = "retrieve_aggregate_facts"

LlmFailed(t) == t.obs.failed = "chat.completions.create"

\* the turn ran a fresh retrieval to its end (no capability raised before the result)
FreshRetrievalDone(t) ==
  /\ IsRetrieveTurn(t)
  /\ t.obs.path \in {"direct", "search"}
  /\ t.obs.failed \notin {"find_one", "generate_embedding", "search_similar_documents"}

\* the synthesis of the turn succeeded
SynthesisSucceeded(t) ==
  /\ IsRetrieveTurn(t)
  /\ Count(t.obs.calls, "chat.completions.create") = 1
  /\ t.obs.failed = ""

\* C1: a turn whose question is a follow-up without a filter, started with a
\* non-empty last_results, calls neither generate_embedding nor
\* search_similar_documents nor find_one, returns to its caller, and leaves
\* last_results, last_question and last_filters as they were, whether the
\* synthesis succeeds or raises.
C1_ReuseTurnKeepsRetrievalContext ==
  [][(/\ IsRetrieveTurn(turn')
      /\ Followup[turn'.question]
      /\ Extracted[turn'.question] = None
      /\ Truthy(last_results))
     => /\ Count(turn'.obs.calls, "generate_embedding") = 0
        /\ Count(turn'.obs.calls, "search_similar_documents") = 0
        /\ Count(turn'.obs.calls, "find_one") = 0
        /\ ~turn'.raised
        /\ last_results' = last_results
        /\ last_question' = last_question
        /\ last_filters' = last_filters]_vars

\* a reuse turn whose synthesis raised, and one whose synthesis succeeded before it
C1_Witness ==
  /\ IsRetrieveTurn(turn)
  /\ turn.obs.path = "reuse"
  /\ LlmFailed(turn)
  /\ Truthy(last_results)
  /\ last_question # Some(turn.question)

\* C2: every failure of an external capability during a turn is caught inside
\* retrieve_aggregate_facts: the call returns the sentinel and the history is
\* discarded.
C2_EveryCapabilityFailureIsCaught ==
  (IsRetrieveTurn(turn) /\ turn.obs.failed # "")
    => /\ ~turn.raised
       /\ turn.answer = NoContextSentinel
       /\ ~Truthy(history)

\* C3: when the text-generation call raises, on either path, the turn returns
\* to its caller with the answer "no context from vectors" and a null or
\* empty history, after exactly one generation call.
C3_SynthesisFailureReturnsSentinel ==
  (IsRetrieveTurn(turn) /\ LlmFailed(turn))
    => /\ ~turn.raised
       /\ Count(turn.obs.calls, "chat.completions.create") = 1
       /\ turn.answer = "no context from vectors"
       /\ ~Truthy(turn.returned)
       /\ ~Truthy(history)

\* the synthesis raised on a fresh-retrieval turn that was given a history
C3_Witness ==
  /\ IsRetrieveTurn(turn)
  /\ LlmFailed(turn)
  /\ turn.obs.path = "search"
  /\ Truthy(turn.historyArg)

\* C4: a fresh-retrieval turn whose retrieval yields no result returns the
\* sentinel "no context from vectors" and leaves last_results as it was.
C4_EmptyRetrievalKeepsLastResults ==
  [][(FreshRetrievalDone(turn') /\ ~Truthy(turn'.obs.results))
     => /\ ~turn'.raised
        /\ turn'.answer = "no context from vectors"
        /\ last_results' = last_results]_vars

\* a direct lookup that missed, with results of an earlier turn still cached
C4_Witness ==
  /\ FreshRetrievalDone(turn)
  /\ turn.obs.path = "direct"
  /\ ~Truthy(turn.obs.results)
  /\ Truthy(last_results)

\* a vector search without a candidate at the threshold, nothing cached before
C4_WitnessNull ==
  /\ FreshRetrievalDone(turn)
  /\ turn.obs.path = "search"
  /\ turn.obs.results = Some(<<>>)
  /\ last_results = None

\* C5: a turn whose question extract_filters reports as a direct lookup makes
\* exactly one find_one call, by the extracted identifier, and no
\* generate_embedding nor search_similar_documents call; it never takes the
\* reuse path.
C5_DirectLookupSkipsVectorSearch ==
  (IsRetrieveTurn(turn) /\ IsDirectLookup(Extracted[turn.question]))
    => /\ turn.obs.path = "direct"
       /\ Count(turn.obs.calls, "find_one") = 1
       /\ turn.obs.find_id = Some(Get(Extracted[turn.question])[1][1][2])
       /\ Count(turn.obs.calls, "generate_embedding") = 0
       /\ Count(turn.obs.calls, "search_similar_documents") = 0

\* a direct lookup by a question that is also a follow-up, with cached results:
\* the lookup missed, so last_results is what the turn started with
C5_Witness ==
  /\ IsRetrieveTurn(turn)
  /\ IsDirectLookup(Extracted[turn.question])
  /\ Followup[turn.question]
  /\ turn.obs.failed = ""
  /\ ~Truthy(turn.obs.results)
  /\ Truthy(last_results)

\* C6: at every turn boundary of the command loop, after any sequence of ask,
\* question and clear commands, the history has at most 8 turns.
C6_HistoryAtMostEightAtTurnBoundary ==
  pc = "running" => HistoryLen(history) <= TruncateAbove

\* C7: after a turn whose synthesis succeeds the returned history has at most
\* 8 turns, and when the history with the user and assistant turns appended
\* is longer than 8, the returned history is its last 6 turns, in order.
C7_SuccessfulTurnBoundsHistory ==
  SynthesisSucceeded(turn)
    => LET pre == Get(turn.obs.pretrunc)
           ret == Get(turn.returned)
       IN /\ Len(ret) <= 8
          /\ ret = Get(history)
          /\ Len(pre) > 8
               => /\ Len(ret) = 6
                  /\ \A i \in 1..6 : ret[i] = pre[Len(pre) - 6 + i]

\* a truncation of a history that grew from empty, 8 turns and the 2 of this turn
C7_Witness ==
  /\ SynthesisSucceeded(turn)
  /\ turn.historyArg = None
  /\ Len(Get(turn.obs.pretrunc)) = 10

\* C8: after a fresh-retrieval turn with a non-empty result list, last_results
\* is that list, last_question the turn's question and last_filters the
\* turn's extract_filters result, also when the synthesis then raised.
C8_FreshRetrievalOverwritesContext ==
  (FreshRetrievalDone(turn) /\ Truthy(turn.obs.results))
    => /\ last_results = turn.obs.results
       /\ last_question = Some(turn.question)
       /\ last_filters = Extracted[turn.question]

\* a fresh retrieval found a record and the synthesis raised
C8_Witness ==
  /\ FreshRetrievalDone(turn)
  /\ Truthy(turn.obs.results)
  /\ LlmFailed(turn)
  /\ last_results = turn.obs.results

\* C9: after a clear command the history, last_results, last_question and
\* last_filters are all null, and a second clear leaves that state as it is.
C9_ClearIsIdempotent ==
  turn.op = "clear"
    => /\ history = None
       /\ last_results = None
       /\ last_question = None
       /\ last_filters = None
       /\ clear(Self) = Self

\* two clear commands in a row
C9_Witness == turn.op = "clear" /\ turn.clears = 2

HasIdToken(toks) == \E i \in DOMAIN toks : toks[i] \in IdTokens

\* the 8 digits of the first id=XXXXXXXX token
FirstIdValue(toks) ==
  LET i == CHOOSE k \in DOMAIN toks :
             toks[k] \in IdTokens /\ \A j \in 1..(k - 1) : toks[j] \notin IdTokens
  IN SubSeq(toks[i], 4, 11)

\* C10: for a question with an 8-digit id=XXXXXXXX token, extract_filters
\* returns one pair, (_id, the 8 digits), with is_direct_lookup true, whatever
\* other filter tokens stand before or after it.
C10_IdentifierTakesPrecedence ==
  (call.fn = "extract_filters" /\ HasIdToken(tokens))
    => call.ret = Some(<< << <<"_id", StrVal(FirstIdValue(tokens))>> >>, TRUE >>)

\* an identifier after a country and a beds token
C10_Witness ==
  /\ call.fn = "extract_filters"
  /\ tokens = <<"country=US", "beds=2", "ID=87654321">>
  /\ Get(call.ret)[2]

\* the (field, value) pair a token stands for, none for a token that is no filter;
\* the value is the text up to the first comma
TokenPair(tok) ==
  IF tok = "country=US" THEN << <<"address.country_code", StrVal("US")>> >>
  ELSE IF tok = "country=,US" THEN << <<"address.country_code", StrVal("")>> >>
  ELSE IF tok = "market=Paris" THEN << <<"address.market", StrVal("Paris")>> >>
  ELSE IF tok = "beds=2" THEN << <<"beds", IntVal(2)>> >>
  ELSE IF tok = "beds=3" THEN << <<"beds", IntVal(3)>> >>
  ELSE IF tok = "bedrooms=1" THEN << <<"bedrooms", IntVal(1)>> >>
  ELSE <<>>

\* the pair of the first token of the list that stands for the field, if there is
\* such a token and its value is not empty
FirstPairOf(toks, field) ==
  LET hits == {i \in DOMAIN toks : TokenPair(toks[i]) # <<>> /\ TokenPair(toks[i])[1][1] = field}
      first == TokenPair(toks[CHOOSE i \in hits : \A j \in hits : i <= j])
  IN IF hits = {} THEN <<>>
     ELSE IF first[1][2] = StrVal("") THEN <<>> ELSE first

\* one pair per field that has a token, the fields in the order country, market,
\* beds, bedrooms
PairsInFieldOrder(toks) ==
  FirstPairOf(toks, "address.country_code") \o FirstPairOf(toks, "address.market")
    \o FirstPairOf(toks, "beds") \o FirstPairOf(toks, "bedrooms")

\* C11, as amended: for a question with no identifier token, extract_filters
\* returns one (field, value) pair per field that has a token in the question,
\* the value of the field's first token when that value is not empty, the
\* counts as integers, with is_direct_lookup false, the pairs in the order country, market, beds,
\* bedrooms whatever the order of the tokens; for "Show listings with beds=2
\* bedrooms=1 market=Paris" the list is [(address.market,"Paris"), (beds,2),
\* (bedrooms,1)].
C11_FiltersInFieldOrder ==
  (call.fn = "extract_filters" /\ ~HasIdToken(tokens))
    => /\ call.ret = IF PairsInFieldOrder(tokens) = <<>> THEN None
                     ELSE Some(<<PairsInFieldOrder(tokens), FALSE>>)
       /\ tokens = ScenarioTokens
            => call.ret = Some(<< << <<"address.market", StrVal("Paris")>>,
                                    <<"beds", IntVal(2)>>,
                                    <<"bedrooms", IntVal(1)>> >>, FALSE >>)

\* the scenario question has been extracted
C11_Witness ==
  /\ call.fn = "extract_filters"
  /\ tokens = ScenarioTokens
  /\ Len(Get(call.ret)[1]) = 3

\* C11, as stated: for "Show listings with beds=2 bedrooms=1 market=Paris" the
\* returned filter list is [(beds,2), (bedrooms,1), (address.market,"Paris")],
\* in that order, with is_direct_lookup false.
C11_ScenarioInQuestionOrder ==
  (call.fn = "extract_filters" /\ tokens = ScenarioTokens)
    => call.ret = Some(<< << <<"beds", IntVal(2)>>,
                            <<"bedrooms", IntVal(1)>>,
                            <<"address.market", StrVal("Paris")>> >>, FALSE >>)

\* a token one of the five patterns matches
MatchedByPattern(tok) == tok \in IdTokens \/ TokenPair(tok) # <<>>

\* C12, as amended: extract_filters returns None exactly when no pattern
\* yields a value, that is when the question has no identifier token and no
\* field whose first token has a non-empty value before its first comma; it
\* never returns an empty filter list, so has_explicit_filter is true if and
\* only if extract_filters returned a value.
C12_AbsentIffNoFilterValue ==
  call.fn = "extract_filters"
    => /\ call.ret = None
            <=> (~HasIdToken(tokens) /\ PairsInFieldOrder(tokens) = <<>>)
       /\ call.ret # None => Len(Get(call.ret)[1]) > 0
       /\ has_explicit_filter(call.ret) <=> call.ret # None

\* a question whose only pattern match has an empty value: None is returned
C12_Witness ==
  /\ call.fn = "extract_filters"
  /\ tokens = <<"cheap", "country=,US">>
  /\ call.ret = None
  /\ ~has_explicit_filter(call.ret)

\* C12, as stated: extract_filters returns None exactly when none of the five
\* patterns matches the question.
C12_AbsentIffNoPatternMatches ==
  call.fn = "extract_filters"
    => (call.ret = None <=> \A i \in DOMAIN tokens : ~MatchedByPattern(tokens[i]))

\* the filter a vector search has to carry for an extract_filters result
ExpectedMatchFilter(f) ==
  IF f = None THEN None
  ELSE IF Len(Get(f)[1]) = 1
       THEN Some([op |-> "eq", clauses |-> <<Get(f)[1][1]>>])
       ELSE Some([op |-> "$and", clauses |-> Get(f)[1]])

\* the strategy of a turn, from what the session caches and the question alone
ExpectedPath(cached, question) ==
  IF Truthy(cached) /\ Followup[question] /\ Extracted[question] = None THEN "reuse"
  ELSE IF Extracted[question] # None /\ Get(Extracted[question])[2] THEN "direct"
  ELSE "search"

\* C13: a turn takes the reuse path iff last_results is non-empty, the
\* question is a follow-up and no filter was extracted; otherwise the
\* direct-id fetch iff is_direct_lookup is true; otherwise it makes exactly one
\* generate_embedding call and, when that call returns, exactly one
\* search_similar_documents call after it, which carries all extracted
\* filters: one pair as an equality match, several combined with AND, none
\* when extraction was absent.  Each strategy makes no call of the others.
C13_OneStrategyPerTurn ==
  [][IsRetrieveTurn(turn')
     => LET path == ExpectedPath(last_results, turn'.question)
            calls == turn'.obs.calls
        IN /\ turn'.obs.path = path
           /\ path = "reuse"
                => /\ Count(calls, "find_one") = 0
                   /\ Count(calls, "generate_embedding") = 0
                   /\ Count(calls, "search_similar_documents") = 0
           /\ path = "direct"
                => /\ Count(calls, "find_one") = 1
                   /\ Count(calls, "generate_embedding") = 0
                   /\ Count(calls, "search_similar_documents") = 0
           /\ path = "search"
                => /\ Count(calls, "find_one") = 0
                   /\ Count(calls, "generate_embedding") = 1
                   /\ calls[1] = "generate_embedding"
                   /\ turn'.obs.failed # "generate_embedding"
                        => /\ Count(calls, "search_similar_documents") = 1
                           /\ calls[2] = "search_similar_documents"
                           /\ turn'.obs.match_filter
                                = ExpectedMatchFilter(Extracted[turn'.question])]_vars

\* a follow-up with one filter, asked while results are cached, ran a vector
\* search with an equality filter
C13_Witness ==
  /\ IsRetrieveTurn(turn)
  /\ turn.question = QOneFilter
  /\ turn.obs.path = "search"
  /\ turn.obs.match_filter = Some([op |-> "eq", clauses |-> << <<"beds", IntVal(2)>> >>])
  /\ Truthy(last_results)
  /\ last_question # Some(QOneFilter)

\* three filters reached the vector search combined with AND
C13_WitnessAnd ==
  /\ IsRetrieveTurn(turn)
  /\ turn.question = QFilters
  /\ Count(turn.obs.calls, "search_similar_documents") = 1
  /\ Get(turn.obs.match_filter).op = "$and"
  /\ Len(Get(turn.obs.match_filter).clauses) = 3

\* C14: on a turn whose fresh retrieval is empty (no vector-search candidate
\* at the threshold, or a direct lookup that missed) the text-generation
\* capability is not called, the turn returns without raising, and the
\* history after the turn is the history the turn started with, the
\* caller's when one was passed and the session's otherwise: nothing is
\* appended and nothing truncated.
C14_EmptyRetrievalKeepsHistory ==
  [][(FreshRetrievalDone(turn') /\ ~Truthy(turn'.obs.results))
     => /\ Count(turn'.obs.calls, "chat.completions.create") = 0
        /\ ~turn'.raised
        /\ history' = IF turn'.historyArg # None THEN turn'.historyArg ELSE history
        /\ turn'.returned = history']_vars

\* an empty retrieval on a turn that was passed a history of more than 8 turns
C14_Witness ==
  /\ FreshRetrievalDone(turn)
  /\ ~Truthy(turn.obs.results)
  /\ turn.historyArg = Some(SuppliedHistory)
  /\ HistoryLen(history) > TruncateAbove

\* an empty retrieval on a turn that was passed an empty history
C14_WitnessEmptyList ==
  /\ FreshRetrievalDone(turn)
  /\ turn.obs.results = Some(<<>>)
  /\ turn.historyArg = Some(<<>>)
  /\ history = Some(<<>>)

\* the turn called the text-generation capability and got a reply
GotReply(t) ==
  /\ t.op \in {"retrieve_aggregate_facts", "query_llm"}
  /\ Count(t.obs.calls, "chat.completions.create") = 1
  /\ t.obs.failed = ""

\* the history is one user turn followed by one assistant turn
IsOneExchange(h) ==
  /\ HistoryLen(h) = 2
  /\ Get(h)[1].role = "user"
  /\ Get(h)[2].role = "assistant"

\* a follow-up without a filter
IsPlainFollowup(t) ==
  IsRetrieveTurn(t) /\ Followup[t.question] /\ Extracted[t.question] = None

\* C15, as amended: after a retrieve_aggregate_facts turn in which the
\* synthesis call raised, the history is empty and last_results is still
\* non-empty; the next turn that calls the text-generation capability and
\* gets a reply returns a history of exactly two turns, its user prompt and
\* the assistant reply, and a next turn that is a follow-up without a filter
\* takes the reuse path.
C15_SessionUsableAfterSynthesisFailure ==
  [][(IsRetrieveTurn(turn) /\ LlmFailed(turn))
     => /\ ~Truthy(history)
        /\ Truthy(last_results)
        /\ GotReply(turn')
             => /\ IsOneExchange(history')
                /\ Get(history')[2].content = turn'.answer
                /\ turn'.returned = history'
        /\ (IsPlainFollowup(turn') /\ turn' # turn) => turn'.obs.path = "reuse"]_vars

\* a reuse turn that started from an empty history and got a reply: the turn
\* before it lost the history to a synthesis failure and kept the results
C15_Witness ==
  /\ IsPlainFollowup(turn)
  /\ turn.obs.path = "reuse"
  /\ GotReply(turn)
  /\ IsOneExchange(history)
  /\ Truthy(last_results)

\* C15, as stated: after a retrieve_aggregate_facts turn in which the synthesis
\* call raised, the next turn whose external calls succeed returns a history
\* of exactly two turns, and a follow-up without a filter takes the reuse path.
C15_NextSuccessfulTurnHasTwoTurns ==
  [][(/\ IsRetrieveTurn(turn) /\ LlmFailed(turn)
      /\ turn'.op \in {"retrieve_aggregate_facts", "query_llm"}
      /\ turn'.obs.failed = "")
     => /\ IsOneExchange(history')
        /\ IsPlainFollowup(turn') => turn'.obs.path = "reuse"]_vars

\* C16, as amended: the clear command nulls the history, last_results,
\* last_question and last_filters, and the first retrieve_aggregate_facts turn
\* after a clear never takes the reuse path, whatever the question: it makes
\* a find_one call or a generate_embedding call; when no ask turn has put
\* turns into the history since the clear, the retrieval query built for that
\* turn is the bare question.
C16_FirstTurnAfterClearRetrieves ==
  [][/\ turn'.op = "clear"
          => /\ history' = None /\ last_results' = None
             /\ last_question' = None /\ last_filters' = None
     /\ (SinceClear /\ IsRetrieveTurn(turn'))
          => /\ turn'.obs.path \in {"direct", "search"}
             /\ turn'.obs.path = "direct" => turn'.obs.calls[1] = "find_one"
             /\ turn'.obs.path = "search"
                  => /\ turn'.obs.calls[1] = "generate_embedding"
                     /\ ~Truthy(history)
                          => turn'.obs.retrieval_query = Some(turn'.question)]_vars

\* a follow-up question, the first after a clear, went to the vector search
\* with the bare question and found a record
C16_Witness ==
  /\ IsRetrieveTurn(turn)
  /\ turn.since_clear
  /\ turn.question = QFollowup
  /\ turn.obs.path = "search"
  /\ turn.obs.retrieval_query = Some(QFollowup)
  /\ Truthy(last_results)

\* C16, as stated: the first retrieve_aggregate_facts turn after a clear never
\* takes the reuse path, and the retrieval query built for it is the bare
\* question with no conversation context.
C16_RetrievalQueryIsBareQuestion ==
  [][(SinceClear /\ IsRetrieveTurn(turn'))
     => /\ turn'.obs.path # "reuse"
        /\ turn'.obs.path = "search"
             => turn'.obs.retrieval_query = Some(turn'.question)]_vars

\* C17: at every turn boundary last_results is null or a non-empty list; a
\* turn changes it only by a clear, to null, or by a fresh retrieval or direct
\* lookup that returned at least one record, to the records returned; a
\* reuse turn leaves it as it is.
C17_LastResultsNullOrNonEmpty ==
  [][/\ last_results' = None \/ Len(Get(last_results')) > 0
     /\ last_results' # last_results
          => \/ turn'.op = "clear" /\ last_results' = None
             \/ /\ FreshRetrievalDone(turn')
                /\ Truthy(turn'.obs.results)
                /\ last_results' = turn'.obs.results
     /\ (IsRetrieveTurn(turn') /\ turn'.obs.path = "reuse")
          => last_results' = last_results]_vars

\* a vector search that returned an empty list left last_results null
C17_Witness ==
  /\ pc = "running"
  /\ FreshRetrievalDone(turn)
  /\ turn.obs.results = Some(<<>>)
  /\ last_results = None

Min(a, b) == IF a <= b THEN a ELSE b

\* the turns h[from..Len(h)] as "<role>: <content>" lines, oldest first
RECURSIVE RenderedFrom(_, _)
RenderedFrom(h, from) ==
  IF from > Len(h) THEN ""
  ELSE h[from].role \o ": " \o h[from].content
         \o (IF from < Len(h) THEN "\n" ELSE "") \o RenderedFrom(h, from + 1)

\* C18: _build_retrieval_query returns the question unchanged when the
\* history is null or empty; otherwise its result is made of exactly the last
\* min(max_messages, len(history)) turns of the history, each as
\* "<role>: <content>", oldest first, followed by the current question; it
\* does not modify the history.
C18_RetrievalQueryHasLastTurns ==
  [][call'.fn = "_build_retrieval_query"
     => /\ history' = history
        /\ ~Truthy(history) => call'.ret = Some(call'.arg)
        /\ Truthy(history)
             => LET h == Get(history)
                    k == Min(call'.n, Len(h))
                IN call'.ret = Some("Conversation context:\n"
                                      \o RenderedFrom(h, Len(h) - k + 1)
                                      \o "\n\nCurrent question:\n" \o call'.arg)]_vars

\* user and assistant turns alternate, the first a user turn, the last an
\* assistant turn
Alternates(h) ==
  /\ Len(h) % 2 = 0
  /\ \A k \in DOMAIN h : h[k].role = IF k % 2 = 1 THEN "user" ELSE "assistant"

\* C19: in a session of the command loop, which starts with no history and
\* is never passed one, the history at every turn boundary is null, empty,
\* or of even length with the roles alternating from a user turn to an
\* assistant turn, after any ask, question and clear commands and any caught
\* failure; the truncation to the last 6 keeps it so.
C19_HistoryAlternatesRoles ==
  pc = "running" => (~Truthy(history) \/ Alternates(Get(history)))

\* the history a truncation left: 6 turns, the first a user turn
C19_Witness ==
  /\ pc = "running"
  /\ SynthesisSucceeded(turn)
  /\ Len(Get(turn.obs.pretrunc)) > TruncateAbove
  /\ HistoryLen(history) = KeepLast
  /\ Get(history)[1].role = "user"

\* C20: only a clear drops the cached retrieval context: once last_results is
\* non-empty it is non-empty after every turn that is not a clear, be it an
\* ask turn, a reuse turn, an empty fresh retrieval, a direct lookup that
\* missed or a synthesis failure; and at every turn boundary last_results is
\* non-null if and only if last_question is non-null.
C20_OnlyClearDropsContext ==
  [][/\ (Truthy(last_results) /\ turn'.op # "clear") => Truthy(last_results')
     /\ (last_results' # None) <=> (last_question' # None)]_vars

\* a direct lookup that missed after an ask turn: the results of an earlier
\* search without filters are still cached, with last_filters null
C20_Witness ==
  /\ pc = "running"
  /\ FreshRetrievalDone(turn)
  /\ turn.obs.path = "direct"
  /\ ~Truthy(turn.obs.results)
  /\ Truthy(last_results)
  /\ last_question # None
  /\ last_filters = None
  /\ Truthy(history)
  /\ \E k \in DOMAIN Get(history) : Get(history)[k].content = "hello"

====
